---------------------------- MODULE Spec2Model ----------------------------
(***************************************************************************)
(* A model of law-finder's two back-fill scripts,                          *)
(*   src/src/extract_case_titles.py  and  src/src/extract_trial_dates.py.  *)
(* Text is modelled character by character: a Python str is a TLA+ string, *)
(* read with Len, SubSeq and \o.  The regular expressions of the source    *)
(* are kept as the pattern strings the source writes and are interpreted   *)
(* by a backtracking matcher with the priority order of Python's re.       *)
(***************************************************************************)
EXTENDS Integers, Sequences, FiniteSets, TLC

(***************************************************************************)
(* Characters and the str methods the scripts call.                        *)
(***************************************************************************)
\* s[i], or "" outside the string
Ch(s, i) == IF i >= 1 /\ i <= Len(s) THEN SubSeq(s, i, i) ELSE ""

UpperAlpha == "ABCDEFGHIJKLMNOPQRSTUVWXYZ"
LowerAlpha == "abcdefghijklmnopqrstuvwxyz"
DigitChars == "0123456789"

CharsOf(s) == { Ch(s, i) : i \in 1..Len(s) }
UpperSet == CharsOf(UpperAlpha)
LowerSet == CharsOf(LowerAlpha)
DigitSet == CharsOf(DigitChars)
SpaceSet == {" ", "\t", "\n", "\r", "\f"}
WordSet == UpperSet \cup LowerSet \cup DigitSet \cup {"_"}

IndexIn(c, alpha) == CHOOSE i \in 1..Len(alpha) : Ch(alpha, i) = c
ToUpperMap == [c \in LowerSet |-> Ch(UpperAlpha, IndexIn(c, LowerAlpha))]
ToLowerMap == [c \in UpperSet |-> Ch(LowerAlpha, IndexIn(c, UpperAlpha))]
UpperCh(c) == IF c \in LowerSet THEN ToUpperMap[c] ELSE c
LowerCh(c) == IF c \in UpperSet THEN ToLowerMap[c] ELSE c
DigitVal(c) == IndexIn(c, DigitChars) - 1

\* Recursions over a text halve it, so that their depth is logarithmic in its length.
RECURSIVE MapChars(_, _, _, _)
MapChars(s, lo, hi, up) ==
    IF lo > hi THEN ""
    ELSE IF lo = hi THEN (IF up THEN UpperCh(Ch(s, lo)) ELSE LowerCh(Ch(s, lo)))
    ELSE LET mid == (lo + hi) \div 2
         IN MapChars(s, lo, mid, up) \o MapChars(s, mid + 1, hi, up)

\* str.upper() and str.lower()
Upper(s) == MapChars(s, 1, Len(s), TRUE)
Lower(s) == MapChars(s, 1, Len(s), FALSE)

RECURSIVE TitleChars(_, _, _)
TitleChars(s, lo, hi) ==
    IF lo > hi THEN ""
    ELSE IF lo = hi
         THEN (IF Ch(s, lo - 1) \in UpperSet \cup LowerSet
               THEN LowerCh(Ch(s, lo)) ELSE UpperCh(Ch(s, lo)))
    ELSE LET mid == (lo + hi) \div 2
         IN TitleChars(s, lo, mid) \o TitleChars(s, mid + 1, hi)

\* str.title(): a letter is upper-cased after a non-letter and lower-cased after a letter
Title(s) == TitleChars(s, 1, Len(s))

Min2(a, b) == IF a < b THEN a ELSE b

\* the first place from p on (Len(s) + 1 if none) whose character is not in set S
FirstNotIn(s, p, S) ==
    CHOOSE i \in p..(Len(s) + 1) :
        /\ (i = Len(s) + 1 \/ Ch(s, i) \notin S)
        /\ \A j \in p..(i - 1) : Ch(s, j) \in S

\* the last place up to q (0 if none) whose character is not in set S
LastNotIn(s, q, S) ==
    CHOOSE i \in 0..q :
        /\ (i = 0 \/ Ch(s, i) \notin S)
        /\ \A j \in (i + 1)..q : Ch(s, j) \in S

\* str.strip()
Strip(s) == SubSeq(s, FirstNotIn(s, 1, SpaceSet), LastNotIn(s, Len(s), SpaceSet))

\* str.startswith(prefix), and the test  sub in s
StartsAt(s, i, sub) == i + Len(sub) - 1 <= Len(s) /\ SubSeq(s, i, i + Len(sub) - 1) = sub
StartsWith(s, prefix) == StartsAt(s, 1, prefix)
Contains(s, sub) == \E i \in 1..(Len(s) + 1) : StartsAt(s, i, sub)

\* the first place from p on where sub occurs in s, or 0
Find(s, p, sub) ==
    IF \E i \in p..(Len(s) + 1) : StartsAt(s, i, sub)
    THEN CHOOSE i \in p..(Len(s) + 1) :
             StartsAt(s, i, sub) /\ \A j \in p..(i - 1) : ~StartsAt(s, j, sub)
    ELSE 0

\* str.isdigit()
IsDigitStr(s) == Len(s) > 0 /\ \A i \in 1..Len(s) : Ch(s, i) \in DigitSet

RECURSIVE ReplaceFrom(_, _, _, _)
ReplaceFrom(s, p, old, new) ==
    LET i == Find(s, p, old)
    IN IF i = 0 THEN SubSeq(s, p, Len(s))
       ELSE SubSeq(s, p, i - 1) \o new \o ReplaceFrom(s, i + Len(old), old, new)

\* str.replace(old, new), old non-empty
Replace(s, old, new) == ReplaceFrom(s, 1, old, new)

RECURSIVE SplitFrom(_, _, _)
SplitFrom(s, p, sep) ==
    LET i == Find(s, p, sep)
    IN IF i = 0 THEN <<SubSeq(s, p, Len(s))>>
       ELSE <<SubSeq(s, p, i - 1)>> \o SplitFrom(s, i + Len(sep), sep)

\* str.split(sep), sep non-empty
Split(s, sep) == SplitFrom(s, 1, sep)

RECURSIVE JoinRange(_, _, _, _)
JoinRange(parts, lo, hi, sep) ==
    IF lo > hi THEN ""
    ELSE IF lo = hi THEN parts[lo]
    ELSE LET mid == (lo + hi) \div 2
         IN JoinRange(parts, lo, mid, sep) \o sep \o JoinRange(parts, mid + 1, hi, sep)

\* sep.join(parts)
Join(parts, sep) == JoinRange(parts, 1, Len(parts), sep)

\* parts[:n]
Take(parts, n) == SubSeq(parts, 1, IF Len(parts) < n THEN Len(parts) ELSE n)

RECURSIVE StrippedNonEmpty(_, _, _)
StrippedNonEmpty(parts, lo, hi) ==
    IF lo > hi THEN <<>>
    ELSE IF lo = hi THEN (IF Strip(parts[lo]) # "" THEN <<Strip(parts[lo])>> ELSE <<>>)
    ELSE LET mid == (lo + hi) \div 2
         IN StrippedNonEmpty(parts, lo, mid) \o StrippedNonEmpty(parts, mid + 1, hi)

\* [line.strip() for line in parts if line.strip()]
StrippedLines(parts) == StrippedNonEmpty(parts, 1, Len(parts))

(***************************************************************************)
(* Python's re, for the pattern syntax the scripts use: literals, escapes  *)
(* (\s \d \w \b and escaped punctuation), character classes with ranges    *)
(* and negation, groups, alternation, the quantifiers * + ? {m} {m,n} and  *)
(* their lazy forms, ^ $ and the dot.  Compile parses a pattern string     *)
(* into a tree; M is the backtracking matcher: it takes the first          *)
(* alternative that lets the rest of the pattern match, as re does.        *)
(***************************************************************************)
ClassEscape(c) ==
    CASE c = "s" -> SpaceSet
      [] c = "d" -> DigitSet
      [] c = "w" -> WordSet
      [] OTHER -> {c}

RangeSet(a, b) ==
    LET alpha == IF a \in UpperSet THEN UpperAlpha
                 ELSE IF a \in LowerSet THEN LowerAlpha ELSE DigitChars
    IN { Ch(alpha, j) : j \in IndexIn(a, alpha)..IndexIn(b, alpha) }

\* the characters of the class whose items are at places lo..hi of p
ClassItems(p, lo, hi) ==
    UNION { IF Ch(p, i - 1) = "\\" /\ i > lo THEN ClassEscape(Ch(p, i))
            ELSE IF Ch(p, i) = "\\" THEN {}
            ELSE IF Ch(p, i) = "-" /\ i > lo /\ i < hi THEN RangeSet(Ch(p, i - 1), Ch(p, i + 1))
            ELSE {Ch(p, i)} : i \in lo..hi }

RECURSIVE ParseNum(_, _, _)
ParseNum(p, i, acc) ==
    IF Ch(p, i) \in DigitSet THEN ParseNum(p, i + 1, acc * 10 + DigitVal(Ch(p, i)))
    ELSE acc

\* the elements of a set of numbers in increasing order
Sorted(S) == [j \in 1..Cardinality(S) |-> CHOOSE i \in S : Cardinality({x \in S : x < i}) = j - 1]

(***************************************************************************)
(* Scan(p) finds the structure of the pattern p place by place: which      *)
(* characters are syntax (neither escaped nor inside a character class),   *)
(* how deep in parentheses each place is, and which places lie inside a    *)
(* {m,n} quantifier.  None of the scripts' patterns escapes a backslash.   *)
(***************************************************************************)
Scan(p) ==
    LET n == Len(p)
        esc == [i \in 1..n |-> i > 1 /\ Ch(p, i - 1) = "\\"] \o <<>>
        incl == [i \in 1..n |->
                    \E a \in 1..(i - 1) :
                        /\ Ch(p, a) = "[" /\ ~esc[a]
                        /\ \A b \in (a + 1)..(i - 1) : Ch(p, b) # "]" \/ esc[b]] \o <<>>
        syn == [i \in 1..n |-> ~esc[i] /\ ~incl[i]] \o <<>>
        opens == {i \in 1..n : syn[i] /\ Ch(p, i) = "("}
        closes == {i \in 1..n : syn[i] /\ Ch(p, i) = ")"}
    IN [p |-> p,
        syn |-> syn,
        esc |-> esc,
        depth |-> [i \in 1..(n + 1) |-> Cardinality({j \in opens : j < i})
                                         - Cardinality({j \in closes : j < i})] \o <<>>,
        inbrace |-> [i \in 1..n |->
                        \E a \in 1..(i - 1) :
                            /\ syn[a] /\ Ch(p, a) = "{"
                            /\ \A b \in (a + 1)..(i - 1) : Ch(p, b) # "}"] \o <<>>,
        capturing |-> {i \in opens : ~StartsAt(p, i + 1, "?:")}]

QuantifierChars == {"*", "+", "?", "{"}

\* place i begins an atom of the sequence that lies at parenthesis depth d
AtomStart(sc, i, d) ==
    /\ sc.syn[i] /\ sc.depth[i] = d /\ ~sc.inbrace[i]
    /\ Ch(sc.p, i) \notin {")", "|", "}"} \cup QuantifierChars

\* place i is a character that stands for itself and is not quantified
Plain(sc, i, d) ==
    /\ i >= 1 /\ i <= Len(sc.p)
    /\ AtomStart(sc, i, d)
    /\ Ch(sc.p, i) \notin {"(", "[", "\\", ".", "^", "$"}
    /\ Ch(sc.p, i + 1) \notin QuantifierChars

\* where the upper bound of {m,n} or {m} starts, the comma of q being at place comma
BoundStart(comma) == IF comma = 0 THEN 2 ELSE comma + 1

\* the quantifier text q applied to node r; hi = -1 is "no limit"
Quantify(r, q) ==
    IF q = "" THEN r
    ELSE [t |-> "rep", r |-> r,
          greedy |-> ~(Len(q) >= 2 /\ Ch(q, Len(q)) = "?"),
          lo |-> CASE Ch(q, 1) = "+" -> 1
                   [] Ch(q, 1) = "{" -> ParseNum(q, 2, 0)
                   [] OTHER -> 0,
          hi |-> CASE Ch(q, 1) = "?" -> 1
                   [] Ch(q, 1) = "{" -> ParseNum(q, BoundStart(Find(q, 2, ",")), 0)
                   [] OTHER -> -1]

\* ParseAtom, ParseSeq and ParseAlt parse the places lo..hi of the scanned pattern;
\* inner[a] is the tree of the group that opens at place a
\* the last place of the atom that begins at place lo with character c
AtomEnd(sc, c, lo, hi) ==
    CASE c = "(" -> CHOOSE e \in lo..hi :
                        sc.syn[e] /\ Ch(sc.p, e) = ")" /\ sc.depth[e] = sc.depth[lo] + 1
      [] c = "[" -> CHOOSE e \in (lo + 1)..hi :
                        /\ Ch(sc.p, e) = "]" /\ ~sc.esc[e]
                        /\ \A b \in (lo + 1)..(e - 1) : Ch(sc.p, b) # "]" \/ sc.esc[b]
      [] c = "\\" -> lo + 1
      [] OTHER -> lo

\* the node of the atom at places lo..last, its quantifier apart
AtomNode(sc, inner, c, next, lo, last) ==
    CASE c = "(" ->
           IF lo \in sc.capturing
           THEN [t |-> "grp", k |-> Cardinality({j \in sc.capturing : j <= lo}), r |-> inner[lo]]
           ELSE inner[lo]
      [] c = "[" ->
           [t |-> "set", neg |-> next = "^",
            S |-> ClassItems(sc.p, IF next = "^" THEN lo + 2 ELSE lo + 1, last - 1)]
      [] c = "\\" ->
           IF next = "b" THEN [t |-> "wb"]
           ELSE [t |-> "set", neg |-> FALSE, S |-> ClassEscape(next)]
      [] c = "." -> [t |-> "dot"]
      [] c = "^" -> [t |-> "bol"]
      [] c = "$" -> [t |-> "eol"]
      [] OTHER -> [t |-> "set", neg |-> FALSE, S |-> {c}]

QuantifiedAtom(sc, inner, lo, last, hi) ==
    Quantify(AtomNode(sc, inner, Ch(sc.p, lo), Ch(sc.p, lo + 1), lo, last),
             SubSeq(sc.p, last + 1, hi))

ParseAtom(sc, inner, lo, hi) ==
    IF Plain(sc, lo, sc.depth[lo]) THEN [t |-> "lit", v |-> SubSeq(sc.p, lo, hi)]
    ELSE QuantifiedAtom(sc, inner, lo, AtomEnd(sc, Ch(sc.p, lo), lo, hi), hi)

\* a node of kind t over the nodes rs, or the node itself when there is only one
NodeOf(t, rs) == IF Len(rs) = 1 THEN rs[1] ELSE [t |-> t, rs |-> rs]

\* the atoms that begin at the places starts, the last one ending at hi
Atoms(sc, inner, starts, hi) ==
    [j \in 1..Len(starts) |->
        ParseAtom(sc, inner, starts[j], IF j = Len(starts) THEN hi ELSE starts[j + 1] - 1)] \o <<>>

\* a run of plain characters is one atom: it begins where no plain character precedes
ParseSeq(sc, inner, lo, hi) ==
    NodeOf("cat",
           Atoms(sc, inner,
                 Sorted({i \in lo..hi : /\ AtomStart(sc, i, sc.depth[lo])
                                        /\ (i = lo \/ ~Plain(sc, i - 1, sc.depth[lo])
                                                   \/ ~Plain(sc, i, sc.depth[lo]))}),
                 hi))

\* the alternatives of lo..hi, the bars between them being at the places bars
Alternatives(sc, inner, bars, lo, hi) ==
    [j \in 1..(Len(bars) + 1) |->
        ParseSeq(sc, inner, IF j = 1 THEN lo ELSE bars[j - 1] + 1,
                            IF j = Len(bars) + 1 THEN hi ELSE bars[j] - 1)] \o <<>>

ParseAlt(sc, inner, lo, hi) ==
    NodeOf("alt",
           Alternatives(sc, inner,
                        Sorted({i \in lo..hi : /\ sc.syn[i] /\ sc.depth[i] = sc.depth[lo]
                                               /\ Ch(sc.p, i) = "|"}),
                        lo, hi))

\* the trees of the groups nested d deep or deeper, by the place of their "("
\* the ")" of the group that opens at place a, d deep
GroupClose(sc, a, d) ==
    CHOOSE e \in a..Len(sc.p) :
        /\ sc.syn[e] /\ Ch(sc.p, e) = ")" /\ sc.depth[e] = d + 1
        /\ \A b \in a..(e - 1) : ~(sc.syn[b] /\ Ch(sc.p, b) = ")" /\ sc.depth[b] = d + 1)

\* inner, with the trees of the groups that open at the places here
WithGroups(sc, d, here, inner) ==
    [a \in 1..Len(sc.p) |->
        IF a \in here
        THEN ParseAlt(sc, inner, IF a \in sc.capturing THEN a + 1 ELSE a + 3,
                      GroupClose(sc, a, d) - 1)
        ELSE inner[a]] \o <<>>

RECURSIVE Groups(_, _), GroupsAt(_, _, _)
Groups(sc, d) ==
    GroupsAt(sc, d, {a \in 1..Len(sc.p) : sc.syn[a] /\ Ch(sc.p, a) = "(" /\ sc.depth[a] = d})

GroupsAt(sc, d, here) ==
    IF here = {} THEN [a \in 1..Len(sc.p) |-> <<>>] \o <<>>
    ELSE WithGroups(sc, d, here, Groups(sc, d + 1))

\* the tree of the scanned pattern and the number of its capturing groups;
\* the whole pattern is parsed as the group 0 deep that opens before its first place
Parse(sc) ==
    [n |-> ParseAlt(sc, Groups(sc, 0), 1, Len(sc.p)), ng |-> Cardinality(sc.capturing)]

\* re.compile(p)
Compile(p) == Parse(Scan(p))

Fail == [ok |-> FALSE]

\* the flags of a call: "I" is re.IGNORECASE, "S" is re.DOTALL
NoFlags == {}
IgnoreCase == {"I"}

\* whether the one-character node n (a class or the dot) matches character c
SetMatches(n, c, fl) ==
    IF n.t = "dot" THEN c # "\n" \/ "S" \in fl
    ELSE (c \in n.S \/ ("I" \in fl /\ (UpperCh(c) \in n.S \/ LowerCh(c) \in n.S))) # n.neg

\* how many characters from place p on are in the class n
RunLen(n, s, p, fl) ==
    (CHOOSE i \in p..(Len(s) + 1) :
         /\ (i = Len(s) + 1 \/ ~SetMatches(n, Ch(s, i), fl))
         /\ \A j \in p..(i - 1) : SetMatches(n, Ch(s, j), fl)) - p

\* characters a and b are the same, or the same letter under re.IGNORECASE
SameChar(a, b, fl) == a = b \/ ("I" \in fl /\ LowerCh(a) = LowerCh(b))

\* a repeated character class whose run from place p is run characters long:
\* every count the quantifier allows, the most first when greedy
RunCounts(n, run, p, g) ==
    [j \in 1..(Min2(run, IF n.hi = -1 THEN run ELSE n.hi) - n.lo + 1) |->
        [e |-> IF n.greedy THEN p + Min2(run, IF n.hi = -1 THEN run ELSE n.hi) - (j - 1)
                           ELSE p + n.lo + (j - 1),
         g |-> g]]

\* the matches rs of a group's body, begun at place p, recorded as group k
Captured(k, p, rs) ==
    [j \in 1..Len(rs) |-> [e |-> rs[j].e, g |-> [rs[j].g EXCEPT ![k] = <<p, rs[j].e>>]]]

(***************************************************************************)
(* M(n, s, p, g, fl) is the list of the ways node n matches s from place   *)
(* p, each [e, g] (the place after the match, the groups), in the order a  *)
(* backtracking matcher tries them: the first one that lets the rest of    *)
(* the pattern match is the one re reports.                                *)
(***************************************************************************)
\* the two lists of matches in the order the quantifier tries them
InOrder(greedy, more, stop) == IF greedy THEN more \o stop ELSE stop \o more

RECURSIVE M(_, _, _, _, _), MCat(_, _, _, _, _, _), Bind(_, _, _, _, _, _),
          MAlt(_, _, _, _, _, _, _), MRep(_, _, _, _, _, _), MoreRep(_, _, _, _, _),
          BindRep(_, _, _, _, _, _, _)
M(n, s, p, g, fl) ==
    CASE n.t \in {"set", "dot"} ->
           IF p <= Len(s) /\ SetMatches(n, Ch(s, p), fl)
           THEN <<[e |-> p + 1, g |-> g]>> ELSE <<>>
      [] n.t = "lit" ->
           IF /\ p + Len(n.v) - 1 <= Len(s)
              /\ \A j \in 1..Len(n.v) : SameChar(Ch(s, p + j - 1), Ch(n.v, j), fl)
           THEN <<[e |-> p + Len(n.v), g |-> g]>> ELSE <<>>
      [] n.t = "cat" -> MCat(n.rs, 1, Len(n.rs), s, <<[e |-> p, g |-> g]>>, fl)
      [] n.t = "alt" -> MAlt(n.rs, 1, Len(n.rs), s, p, g, fl)
      [] n.t = "rep" ->
           IF n.r.t \in {"set", "dot"}
           THEN RunCounts(n, RunLen(n.r, s, p, fl), p, g)
           ELSE MRep(n, 0, s, p, g, fl)
      [] n.t = "grp" -> Captured(n.k, p, M(n.r, s, p, g, fl))
      [] n.t = "bol" -> IF p = 1 THEN <<[e |-> p, g |-> g]>> ELSE <<>>
      [] n.t = "eol" ->
           IF p = Len(s) + 1 \/ (p = Len(s) /\ Ch(s, p) = "\n")
           THEN <<[e |-> p, g |-> g]>> ELSE <<>>
      [] n.t = "wb" ->
           IF (Ch(s, p - 1) \in WordSet) # (Ch(s, p) \in WordSet)
           THEN <<[e |-> p, g |-> g]>> ELSE <<>>

\* the nodes rs[lo..hi] in sequence, from each of the places in cur
MCat(rs, lo, hi, s, cur, fl) ==
    IF Len(cur) = 0 THEN <<>>
    ELSE IF lo > hi THEN cur
    ELSE IF lo = hi THEN Bind(rs[lo], s, cur, 1, Len(cur), fl)
    ELSE LET mid == (lo + hi) \div 2
         IN MCat(rs, mid + 1, hi, s, MCat(rs, lo, mid, s, cur, fl), fl)

Bind(n, s, cur, lo, hi, fl) ==
    IF lo > hi THEN <<>>
    ELSE IF lo = hi THEN M(n, s, cur[lo].e, cur[lo].g, fl)
    ELSE LET mid == (lo + hi) \div 2
         IN Bind(n, s, cur, lo, mid, fl) \o Bind(n, s, cur, mid + 1, hi, fl)

MAlt(rs, lo, hi, s, p, g, fl) ==
    IF lo > hi THEN <<>>
    ELSE IF lo = hi THEN M(rs[lo], s, p, g, fl)
    ELSE LET mid == (lo + hi) \div 2
         IN MAlt(rs, lo, mid, s, p, g, fl) \o MAlt(rs, mid + 1, hi, s, p, g, fl)

\* c repetitions of n.r are matched: one more first when greedy, none first when lazy
MRep(n, c, s, p, g, fl) ==
    InOrder(n.greedy,
            MoreRep(n, c + 1, s,
                    SelectSeq(IF n.hi # -1 /\ c >= n.hi THEN <<>> ELSE M(n.r, s, p, g, fl),
                              LAMBDA r : r.e > p),
                    fl),
            IF c >= n.lo THEN <<[e |-> p, g |-> g]>> ELSE <<>>)

\* one more repetition having ended at each of the places in moved
MoreRep(n, c, s, moved, fl) == BindRep(n, c, s, moved, 1, Len(moved), fl)

BindRep(n, c, s, cur, lo, hi, fl) ==
    IF lo > hi THEN <<>>
    ELSE IF lo = hi THEN MRep(n, c, s, cur[lo].e, cur[lo].g, fl)
    ELSE LET mid == (lo + hi) \div 2
         IN BindRep(n, c, s, cur, lo, mid, fl) \o BindRep(n, c, s, cur, mid + 1, hi, fl)

\* a match of re starting at place p of s: [ok, b, e, g], the match being s[b..e-1]
FirstOf(ms, p) ==
    IF Len(ms) > 0 THEN [ok |-> TRUE, b |-> p, e |-> ms[1].e, g |-> ms[1].g] ELSE Fail

MatchAt(re, s, p, fl) == FirstOf(M(re.n, s, p, [j \in 1..re.ng |-> <<0, 0>>], fl), p)

\* re.match(pattern, s, flags)
ReMatch(re, s, fl) == MatchAt(re, s, 1, fl)

\* the leftmost match of re in s that starts at place p or later
OrElse(m, other) == IF m.ok THEN m ELSE other

\* the match at the first of the places lo..hi that has one
RECURSIVE FirstMatch(_, _, _, _, _)
FirstMatch(re, s, lo, hi, fl) ==
    IF lo > hi THEN Fail
    ELSE IF lo = hi THEN MatchAt(re, s, lo, fl)
    ELSE OrElse(FirstMatch(re, s, lo, (lo + hi) \div 2, fl),
                FirstMatch(re, s, ((lo + hi) \div 2) + 1, hi, fl))

SearchFrom(re, s, p, fl) == FirstMatch(re, s, p, Len(s) + 1, fl)

\* re.search(pattern, s, flags)
ReSearch(re, s, fl) == SearchFrom(re, s, 1, fl)

\* match.group(k)
Group(s, m, k) == IF k = 0 THEN SubSeq(s, m.b, m.e - 1)
                  ELSE SubSeq(s, m.g[k][1], m.g[k][2] - 1)

\* the replacement text of re.sub: the template "\\1" stands for group 1
Expand(repl, s, m) == IF repl = "\\1" THEN Group(s, m, 1) ELSE repl

\* where the scan goes on after match m: past it, or one character on when it is empty
Resume(m) == IF m.e = m.b THEN m.b + 1 ELSE m.e

\* the character an empty match leaves in place
SteppedOver(s, m) == IF m.e = m.b THEN Ch(s, m.b) ELSE ""

RECURSIVE SubFrom(_, _, _, _, _), SubAt(_, _, _, _, _, _)
SubFrom(re, repl, s, p, fl) == SubAt(SearchFrom(re, s, p, fl), re, repl, s, p, fl)

\* m is the next match from place p on: the text before it, its replacement, the rest
SubAt(m, re, repl, s, p, fl) ==
    IF ~m.ok THEN SubSeq(s, p, Len(s))
    ELSE SubSeq(s, p, m.b - 1) \o Expand(repl, s, m) \o SteppedOver(s, m)
         \o SubFrom(re, repl, s, Resume(m), fl)

\* re.sub(pattern, repl, s, flags)
ReSub(re, repl, s, fl) == SubFrom(re, repl, s, 1, fl)

RECURSIVE FindFrom(_, _, _, _), FindAt(_, _, _, _)
FindFrom(re, s, p, fl) == FindAt(SearchFrom(re, s, p, fl), re, s, fl)

FindAt(m, re, s, fl) ==
    IF ~m.ok THEN <<>>
    ELSE <<m>> \o FindFrom(re, s, Resume(m), fl)

\* list(re.finditer(pattern, s, flags))
ReFindIter(re, s, fl) == FindFrom(re, s, 1, fl)

\* re.sub(r'\s+', ' ', s)
WhitespaceRe == Compile("\\s+")
CollapseWS(s) == ReSub(WhitespaceRe, " ", s, NoFlags)


\* Optional[str]
None == [some |-> FALSE, v |-> ""]
Some(v) == [some |-> TRUE, v |-> v]
\* Python's truth value of an Optional[str]: neither None nor ""
Truthy(o) == o.some /\ o.v # ""

\* html.unescape, for the one entity the modelled documents use
AmpEntityRe == Compile("&amp;?")
unescape(s) == ReSub(AmpEntityRe, "&", s, NoFlags)

(***************************************************************************)
(* html.parser.HTMLParser.feed, for documents made of start tags, end tags *)
(* and text: the events it calls the handlers with.  The content of a      *)
(* script or style element is handed over as one text chunk, not unescaped *)
(* (the parser's CDATA mode); other text is unescaped (convert_charrefs).  *)
(***************************************************************************)
CDATA_CONTENT_ELEMENTS == {"script", "style"}

RECURSIVE TokensFrom(_, _, _)
TokensFrom(h, p, cdata) ==
    IF p > Len(h) THEN <<>>
    ELSE IF cdata # ""
    THEN LET close == Find(Lower(h), p, "</" \o cdata)
         IN IF close = 0 THEN <<>>
            ELSE (IF close > p THEN <<[k |-> "data", v |-> SubSeq(h, p, close - 1)]>> ELSE <<>>)
                 \o TokensFrom(h, close, "")
    ELSE IF Ch(h, p) = "<" /\ Ch(h, p + 1) \in UpperSet \cup LowerSet
    THEN LET gt == Find(h, p, ">")
             name == Lower(SubSeq(h, p + 1, FirstNotIn(h, p + 1, WordSet) - 1))
         IN IF gt = 0 THEN <<>>
            ELSE <<[k |-> "start", v |-> name]>>
                 \o TokensFrom(h, gt + 1, IF name \in CDATA_CONTENT_ELEMENTS THEN name ELSE "")
    ELSE IF StartsAt(h, p, "</") /\ Ch(h, p + 2) \in UpperSet \cup LowerSet
    THEN LET gt == Find(h, p, ">")
             name == Lower(SubSeq(h, p + 2, FirstNotIn(h, p + 2, WordSet) - 1))
         IN IF gt = 0 THEN <<>>
            ELSE <<[k |-> "end", v |-> name]>> \o TokensFrom(h, gt + 1, "")
    ELSE LET lt == Find(h, p + 1, "<")
             e == IF lt = 0 THEN Len(h) ELSE lt - 1
         IN <<[k |-> "data", v |-> unescape(SubSeq(h, p, e))]>> \o TokensFrom(h, e + 1, "")

Tokens(h) == TokensFrom(h, 1, "")

(***************************************************************************)
(* TextExtractor (and DateExtractor, the same handlers with another cap).  *)
(***************************************************************************)
TextExtractor_max_lines == 50
DateExtractor_max_lines == 150

\* __init__
NewParser(max_lines) ==
    [text |-> <<>>, in_body |-> FALSE, line_count |-> 0, max_lines |-> max_lines]

handle_starttag(st, tag) ==
    IF Lower(tag) = "body" THEN [st EXCEPT !.in_body = TRUE] ELSE st

handle_endtag(st, tag) ==
    IF Lower(tag) = "body" THEN [st EXCEPT !.in_body = FALSE] ELSE st

\* The loop appends the stripped non-empty lines of data, in order, and stops
\* at the cap: it appends the first max_lines - line_count of them.
handle_data(st, data) ==
    IF st.in_body /\ st.line_count < st.max_lines
    THEN LET new == Take(StrippedLines(Split(data, "\n")), st.max_lines - st.line_count)
         IN [st EXCEPT !.text = st.text \o new, !.line_count = st.line_count + Len(new)]
    ELSE st

\* the handler HTMLParser calls for one event
Dispatch(st, ev) ==
    CASE ev.k = "start" -> handle_starttag(st, ev.v)
      [] ev.k = "end" -> handle_endtag(st, ev.v)
      [] ev.k = "data" -> handle_data(st, ev.v)

RECURSIVE FeedFrom(_, _, _)
FeedFrom(st, evs, i) == IF i > Len(evs) THEN st ELSE FeedFrom(Dispatch(st, evs[i]), evs, i + 1)

\* parser.feed(html_content)
Feed(st, html) == FeedFrom(st, Tokens(html), 1)

extract_plain_text_first_50_lines(html_content) ==
    Join(Take(Feed(NewParser(TextExtractor_max_lines), html_content).text, 50), "\n")

(***************************************************************************)
(* extract_case_titles.py: the title strategies.                           *)
(***************************************************************************)
single_line_patterns ==
    << Compile("^([A-Z][A-Z\\s&.,\\'\\-\\d()]+(?:\\s+&(?:\\s+ANO?\\.?)?)?(?:\\s+&(?:\\s+ORS?\\.?)?)?(?:\\s+ETC\\.?)?)\\s+v\\.?\\s+([A-Z][A-Z\\s&.,\\'\\-\\d()]+(?:\\s+&(?:\\s+ANO?\\.?)?)?(?:\\s+&(?:\\s+ORS?\\.?)?)?(?:\\s+ETC\\.?)?)(?:\\s+\\[.*?\\])?"),
       Compile("^([A-Z][A-Z\\s&.,\\'\\-\\d()]+(?:\\s+&(?:\\s+ANO?\\.?)?)?(?:\\s+&(?:\\s+ORS?\\.?)?)?(?:\\s+ETC\\.?)?)\\s+VRS\\.?\\s+([A-Z][A-Z\\s&.,\\'\\-\\d()]+(?:\\s+&(?:\\s+ANO?\\.?)?)?(?:\\s+&(?:\\s+ORS?\\.?)?)?(?:\\s+ETC\\.?)?)"),
       Compile("^(THE\\s+REPUBLIC)\\s+v\\.?\\s+([A-Z][A-Z\\s&.,\\'\\-\\d()]+(?:\\s+&(?:\\s+ANO?\\.?)?)?(?:\\s+&(?:\\s+ORS?\\.?)?)?(?:\\s+ETC\\.?)?)") >>

TrailingBracketRe == Compile("\\s*\\[.*?\\]\\s*$")
TrailingCaseNoRe == Compile("\\s*H\\d+/\\d+/\\d+.*?$")

\* the first of the attempts tries[lo..hi], in order, that returns a value
Either(first, other) == IF first.some THEN first ELSE other

RECURSIVE FirstSomeIn(_, _, _)
FirstSomeIn(tries, lo, hi) ==
    IF lo > hi THEN None
    ELSE IF lo = hi THEN tries[lo]
    ELSE Either(FirstSomeIn(tries, lo, (lo + hi) \div 2),
                FirstSomeIn(tries, ((lo + hi) \div 2) + 1, hi))

FirstSome(tries) == FirstSomeIn(tries, 1, Len(tries))

\* for line in lines: for pattern in patterns: the pairs in the order the loops meet them
LinePatternPairs(lines, patterns) ==
    [idx \in 1..(Len(lines) * Len(patterns)) |->
        [line |-> lines[((idx - 1) \div Len(patterns)) + 1],
         pattern |-> patterns[((idx - 1) % Len(patterns)) + 1]]]

\* if len(title) > 10 and 'pages.gif' not in title.lower(): return title
AcceptTitle(title) ==
    IF Len(title) > 10 /\ ~Contains(Lower(title), "pages.gif") THEN Some(title) ELSE None

\* if len(title) > 10: return title
AcceptLong(title) == IF Len(title) > 10 THEN Some(title) ELSE None

\* the clean-up of a single-line match: strip, the three re.sub, the replace
SingleLineClean(title) ==
    Replace(CollapseWS(ReSub(TrailingCaseNoRe, "",
                             ReSub(TrailingBracketRe, "", Strip(title), NoFlags),
                             NoFlags)),
            "&amp;", "&")

\* if match: the title it gives, when accepted
SingleLineTitle(line, match) ==
    IF match.ok THEN AcceptTitle(SingleLineClean(Group(line, match, 0))) ELSE None

SingleLineCandidate(line, pattern) == SingleLineTitle(line, ReMatch(pattern, line, IgnoreCase))

SingleLineCandidates(pairs) ==
    [idx \in 1..Len(pairs) |-> SingleLineCandidate(pairs[idx].line, pairs[idx].pattern)]

\* Strategy 1: for line in lines[:30]: for pattern in single_line_patterns
SingleLineStrategy(lines) ==
    FirstSome(SingleLineCandidates(LinePatternPairs(Take(lines, 30), single_line_patterns)))

SeparatorLineRe == Compile("\\b(V\\.?|VRS\\.?|VERSUS)\\b")
PartyRe == Compile("^([A-Z][A-Z\\s&.,\\'\\-\\d()]+)")
PlaintiffMetadataWords == {"PLAINTIFF", "RESPONDENT", "APPELLANT", "CORAM", "JUDGMENT"}
DefendantMetadataWords == {"DEFENDANT", "RESPONDENT", "APPELLANT"}

\* 'v.' if 'V\.' in line2 or 'V ' in line2 else 'VRS' if 'VRS' in line2 else 'VERSUS'
v_word(line2) ==
    IF Contains(line2, "V\\.") \/ Contains(line2, "V ") THEN "v."
    ELSE IF Contains(line2, "VRS") THEN "VRS" ELSE "VERSUS"

\* the two parties cleaned up: the metadata words skip the triple, the title is built
SplitLineTitle(plaintiff, defendant, line2) ==
    IF /\ \A word \in PlaintiffMetadataWords : ~Contains(Upper(plaintiff), word)
       /\ \A word \in DefendantMetadataWords : ~Contains(Upper(defendant), word)
    THEN AcceptLong(Replace(plaintiff \o " " \o v_word(line2) \o " " \o defendant, "&amp;", "&"))
    ELSE None

\* match.group(1).strip() with its white space collapsed
Party(line, match) == CollapseWS(Strip(Group(line, match, 1)))

\* if plaintiff_match and defendant_match
SplitLineParties(line1, line2, line3, plaintiff_match, defendant_match) ==
    IF plaintiff_match.ok /\ defendant_match.ok
    THEN SplitLineTitle(Party(line1, plaintiff_match), Party(line3, defendant_match), line2)
    ELSE None

\* the title the triple line1, line2, line3 gives, if any; line2 is upper-cased
SplitLineTriple(line1, line2, line3) ==
    IF ReSearch(SeparatorLineRe, line2, NoFlags).ok
    THEN SplitLineParties(line1, line2, line3,
                          ReMatch(PartyRe, line1, NoFlags), ReMatch(PartyRe, line3, NoFlags))
    ELSE None

SplitLineCandidate(lines, i) == SplitLineTriple(lines[i], Upper(lines[i + 1]), lines[i + 2])

\* Strategy 2: for i in range(min(20, len(lines) - 2))
SplitLineStrategy(lines) ==
    FirstSome([i \in 1..Min2(20, Len(lines) - 2) |-> SplitLineCandidate(lines, i)])

matter_pattern == Compile("(IN\\s+THE\\s+MATTER\\s+OF[^\\.]+)")

MatterTitle(full_text, match) ==
    IF match.ok THEN AcceptLong(CollapseWS(Strip(Group(full_text, match, 1)))) ELSE None

MatterSearch(full_text) == MatterTitle(full_text, ReSearch(matter_pattern, full_text, IgnoreCase))

\* Strategy 3
MatterStrategy(lines) == MatterSearch(Join(Take(lines, 30), " "))

\* the three strategies in order
TitleStrategies(lines) ==
    Either(SingleLineStrategy(lines), Either(SplitLineStrategy(lines), MatterStrategy(lines)))

\* text = unescape(text); lines = [line.strip() for line in text.split('\n') if line.strip()]
TextLines(text) == StrippedLines(Split(unescape(text), "\n"))

find_case_title_in_text(text) == TitleStrategies(TextLines(text))

html_title_patterns ==
    << Compile("([A-Z][A-Z\\s&.,\\'\\-\\d()]+(?:\\s+&(?:\\s+ANO?\\.?)?)?(?:\\s+&(?:\\s+ORS?\\.?)?)?)\\s+v\\.?\\s+([A-Z][A-Z\\s&.,\\'\\-\\d()]+(?:\\s+&(?:\\s+ANO?\\.?)?)?(?:\\s+&(?:\\s+ORS?\\.?)?)?)"),
       Compile("([A-Z][A-Z\\s&.,\\'\\-\\d()]+(?:\\s+&(?:\\s+ANO?\\.?)?)?(?:\\s+&(?:\\s+ORS?\\.?)?)?)\\s+VRS\\.?\\s+([A-Z][A-Z\\s&.,\\'\\-\\d()]+(?:\\s+&(?:\\s+ANO?\\.?)?)?(?:\\s+&(?:\\s+ORS?\\.?)?)?)"),
       Compile("(THE\\s+REPUBLIC)\\s+v\\.?\\s+([A-Z][A-Z\\s&.,\\'\\-\\d()]+(?:\\s+&(?:\\s+ANO?\\.?)?)?(?:\\s+&(?:\\s+ORS?\\.?)?)?)") >>

ScriptRe == Compile("<script[^>]*>.*?</script>")
StyleRe == Compile("<style[^>]*>.*?</style>")
TagRe == Compile("<[^>]+>")

\* the two re.sub that remove script and style elements from the raw HTML
RemoveScriptStyle(html_content) ==
    ReSub(StyleRe, "", ReSub(ScriptRe, "", html_content, {"I", "S"}), {"I", "S"})

\* the clean-up of a raw-HTML match: tags out, unescape, white space, trailing metadata
HtmlClean(title) ==
    Replace(ReSub(TrailingCaseNoRe, "",
                  ReSub(TrailingBracketRe, "",
                        Strip(CollapseWS(unescape(ReSub(TagRe, "", title, NoFlags)))),
                        NoFlags),
                  NoFlags),
            "&amp;", "&")

\* the title one match of a raw-HTML pattern gives, and whether it is accepted
HtmlCandidate(html_snippet, match) == AcceptTitle(HtmlClean(Group(html_snippet, match, 0)))

HtmlCandidates(html_snippet, matches) ==
    [j \in 1..Len(matches) |-> HtmlCandidate(html_snippet, matches[j])]

\* for match in re.finditer(pattern, html_snippet): the first accepted title
HtmlPatternTitle(html_snippet, pattern) ==
    FirstSome(HtmlCandidates(html_snippet, ReFindIter(pattern, html_snippet, IgnoreCase)))

\* for pattern in patterns
HtmlPatternTitles(html_snippet, patterns) ==
    FirstSome([k \in 1..Len(patterns) |-> HtmlPatternTitle(html_snippet, patterns[k])])

\* html_content[:5000]
Snippet(html_content) == SubSeq(html_content, 1, Min2(5000, Len(html_content)))

extract_title_from_html(html_content) ==
    HtmlPatternTitles(Snippet(RemoveScriptStyle(html_content)), html_title_patterns)

\* os.path.basename
basename(path) == SubSeq(path, LastNotIn(path, Len(path), CharsOf(path) \ {"/"}) + 1, Len(path))

prefixes == <<"COURT OF APPEAL__", "SUPREME COURT__", "WACA__", "WALR__">>

\* if part and not part.isdigit() and not part.startswith('20') and part != 'TEMP'
Meaningful(part) == part # "" /\ ~IsDigitStr(part) /\ ~StartsWith(part, "20") /\ part # "TEMP"

\* for part in reversed(parts): the last part that is kept, or base when none is
RECURSIVE LastMeaningfulPart(_, _, _)
LastMeaningfulPart(base, parts, j) ==
    IF j = 0 THEN base
    ELSE IF Meaningful(parts[j]) THEN parts[j]
    ELSE LastMeaningfulPart(base, parts, j - 1)

\* base, the prefix cut off, split in parts
AfterPrefix(base, parts) ==
    IF Len(parts) > 1 THEN LastMeaningfulPart(base, parts, Len(parts)) ELSE base

\* base = base[len(prefix):]
CutPrefix(base, prefix) == SubSeq(base, Len(prefix) + 1, Len(base))

\* one round of  for prefix in prefixes
StripPrefix(base, prefix) ==
    IF StartsWith(base, prefix)
    THEN AfterPrefix(CutPrefix(base, prefix), Split(CutPrefix(base, prefix), "__"))
    ELSE base

RECURSIVE StripPrefixes(_, _)
StripPrefixes(base, k) ==
    IF k > Len(prefixes) THEN base ELSE StripPrefixes(StripPrefix(base, prefixes[k]), k + 1)

\* if len(base) > 10 and base != 'pages.gif': return base.strip()
FilenameTitle(base) == IF Len(base) > 10 /\ base # "pages.gif" THEN Some(Strip(base)) ELSE None

extract_title_from_filename(filename) ==
    FilenameTitle(CollapseWS(Replace(StripPrefixes(Replace(basename(filename), ".json", ""), 1),
                                     "__", " ")))

(***************************************************************************)
(* datetime: the calendar, datetime(), strptime and strftime.              *)
(***************************************************************************)
MINYEAR == 1
MAXYEAR == 9999

IsLeap(y) == y % 4 = 0 /\ (y % 100 # 0 \/ y % 400 = 0)

DaysInMonth(y, m) ==
    IF m = 2 THEN (IF IsLeap(y) THEN 29 ELSE 28)
    ELSE IF m \in {4, 6, 9, 11} THEN 30 ELSE 31

\* datetime(y, m, d) does not raise ValueError
ValidDate(y, m, d) ==
    /\ y >= MINYEAR /\ y <= MAXYEAR
    /\ m >= 1 /\ m <= 12
    /\ d >= 1 /\ d <= DaysInMonth(y, m)

RECURSIVE StrToInt(_, _)
StrToInt(s, n) == IF n = 0 THEN 0 ELSE StrToInt(s, n - 1) * 10 + DigitVal(Ch(s, n))

\* int(s), s a run of digits
int(s) == StrToInt(s, Len(s))

RECURSIVE IntToStr(_)
IntToStr(n) == IF n < 10 THEN Ch(DigitChars, n + 1)
               ELSE IntToStr(n \div 10) \o Ch(DigitChars, (n % 10) + 1)

RECURSIVE ZeroPad(_, _)
ZeroPad(s, width) == IF Len(s) >= width THEN s ELSE ZeroPad("0" \o s, width)

\* dt.strftime('%Y-%m-%d').  %m and %d are two digits.  %Y is the C library's:
\* four digits, zero-padded, where pads_year holds; the bare number where it
\* does not (glibc, for a year below 1000).
strftime(y, m, d, pads_year) ==
    (IF pads_year THEN ZeroPad(IntToStr(y), 4) ELSE IntToStr(y))
    \o "-" \o ZeroPad(IntToStr(m), 2) \o "-" \o ZeroPad(IntToStr(d), 2)

MonthNames == << "january", "february", "march", "april", "may", "june", "july",
                 "august", "september", "october", "november", "december" >>

\* the number of the month a full month name names, in any case
MonthNumber(name) == CHOOSE i \in 1..12 : MonthNames[i] = Lower(name)

\* _strptime's regular expressions for the directives %d, %m, %B and %Y;
\* white space in a format matches \s+
StrptimeDayMonthYearRe ==
    Compile("(3[0-1]|[1-2]\\d|0[1-9]|[1-9]| [1-9])\\s+(January|February|March|April|May|June|July|August|September|October|November|December)\\s+(\\d\\d\\d\\d)")
StrptimeMonthDayYearRe ==
    Compile("(January|February|March|April|May|June|July|August|September|October|November|December)\\s+(3[0-1]|[1-2]\\d|0[1-9]|[1-9]| [1-9])\\s+(\\d\\d\\d\\d)")
StrptimeIsoRe ==
    Compile("(\\d\\d\\d\\d)-(1[0-2]|0[1-9]|[1-9])-(3[0-1]|[1-2]\\d|0[1-9]|[1-9]| [1-9])")

\* the regular expression _strptime builds for a format
StrptimeRe(fmt) ==
    CASE fmt = "%d %B %Y" -> StrptimeDayMonthYearRe
      [] fmt = "%B %d %Y" -> StrptimeMonthDayYearRe
      [] fmt = "%Y-%m-%d" -> StrptimeIsoRe

\* datetime(y, m, d): [ok, y, m, d]; ok is "no ValueError"
datetime(y, m, d) == IF ValidDate(y, m, d) THEN [ok |-> TRUE, y |-> y, m |-> m, d |-> d] ELSE Fail

\* the fields of the matched text, by the place each directive has in the format
StrptimeFields(s, fmt, found) ==
    CASE fmt = "%d %B %Y" -> datetime(int(Group(s, found, 3)), MonthNumber(Group(s, found, 2)),
                                      int(Strip(Group(s, found, 1))))
      [] fmt = "%B %d %Y" -> datetime(int(Group(s, found, 3)), MonthNumber(Group(s, found, 1)),
                                      int(Strip(Group(s, found, 2))))
      [] fmt = "%Y-%m-%d" -> datetime(int(Group(s, found, 1)), int(Group(s, found, 2)),
                                      int(Strip(Group(s, found, 3))))

\* the whole of s has to match
StrptimeMatch(s, fmt, found) ==
    IF found.ok /\ found.e = Len(s) + 1 THEN StrptimeFields(s, fmt, found) ELSE Fail

\* datetime.strptime(s, fmt): [ok, y, m, d]; ok is "no ValueError": the whole of
\* s matches the format and names a date of the calendar
strptime(s, fmt) == StrptimeMatch(s, fmt, ReMatch(StrptimeRe(fmt), s, IgnoreCase))

(***************************************************************************)
(* extract_trial_dates.py                                                  *)
(***************************************************************************)
\* (pattern, fmt); fmt "" is the source's None, the slash-numeric form
date_formats ==
    << [re |-> Compile("(\\d{1,2})(?:st|nd|rd|th)?\\s+(January|February|March|April|May|June|July|August|September|October|November|December),?\\s+(\\d{4})"), fmt |-> "%d %B %Y"],
       [re |-> Compile("(January|February|March|April|May|June|July|August|September|October|November|December)\\s+(\\d{1,2})(?:st|nd|rd|th)?,?\\s+(\\d{4})"), fmt |-> "%B %d %Y"],
       [re |-> Compile("(\\d{1,2})(?:ST|ND|RD|TH)?\\s+(JANUARY|FEBRUARY|MARCH|APRIL|MAY|JUNE|JULY|AUGUST|SEPTEMBER|OCTOBER|NOVEMBER|DECEMBER),?\\s+(\\d{4})"), fmt |-> "%d %B %Y"],
       [re |-> Compile("(\\d{1,2})/(\\d{1,2})/(\\d{4})"), fmt |-> ""],
       [re |-> Compile("(\\d{4})-(\\d{1,2})-(\\d{1,2})"), fmt |-> "%Y-%m-%d"] >>

OrdinalSuffixRe == Compile("(\\d+)(st|nd|rd|th)")

\* return dt.strftime('%Y-%m-%d'), or (ValueError) go on
Formatted(dt, pads_year) ==
    IF dt.ok THEN Some(strftime(dt.y, dt.m, dt.d, pads_year)) ELSE None

\* the slash-numeric form: day/month/year first, month/day/year when that is no date
DayMonthYear(day, month, year, pads_year) ==
    Either(Formatted(datetime(year, month, day), pads_year),
           Formatted(datetime(year, day, month), pads_year))

SlashDate(date_str, match, pads_year) ==
    DayMonthYear(int(Group(date_str, match, 1)), int(Group(date_str, match, 2)),
                 int(Group(date_str, match, 3)), pads_year)

\* the matched text without ordinal suffixes and commas, in title case
CleanDate(clean_date) ==
    Title(Replace(ReSub(OrdinalSuffixRe, "\\1", clean_date, IgnoreCase), ",", ""))

\* a written or ISO form: the matched text cleaned up and handed to strptime
FormatDate(date_str, match, fmt, pads_year) ==
    Formatted(strptime(Strip(CleanDate(Group(date_str, match, 0))), fmt), pads_year)

\* if match: the value returned, or None (continue)
DateFromMatch(date_str, match, fmt, pads_year) ==
    IF ~match.ok THEN None
    ELSE IF fmt = "" THEN SlashDate(date_str, match, pads_year)
    ELSE FormatDate(date_str, match, fmt, pads_year)

\* one round of  for pattern, fmt in date_formats
DateFormatAttempt(date_str, f, pads_year) ==
    DateFromMatch(date_str, ReSearch(f.re, date_str, IgnoreCase), f.fmt, pads_year)

DateFormatAttempts(date_str, formats, pads_year) ==
    [k \in 1..Len(formats) |-> DateFormatAttempt(date_str, formats[k], pads_year)]

\* the value a round returned, or date_str.strip() when none did
ParsedOr(parsed, date_str) == IF parsed.some THEN parsed.v ELSE Strip(date_str)

\* the function after its first line, date_str = date_str.strip()
ParseStripped(date_str, pads_year) ==
    ParsedOr(FirstSome(DateFormatAttempts(date_str, date_formats, pads_year)), date_str)

parse_date_from_text(date_str, pads_year) == ParseStripped(Strip(date_str), pads_year)

extract_text_first_150_lines(html_content) ==
    Take(Feed(NewParser(DateExtractor_max_lines), html_content).text, 150)

\* if parsed and len(parsed) >= 10: return parsed
AcceptParsed(parsed) == IF parsed # "" /\ Len(parsed) >= 10 THEN Some(parsed) ELSE None

\* date_str = match.group(1); parsed = parse_date_from_text(date_str); if parsed and ...
GroupOneDate(text, match, pads_year) ==
    AcceptParsed(parse_date_from_text(Group(text, match, 1), pads_year))

html_date_patterns ==
    << Compile("<[^>]*>(\\d{1,2})<[^>]*>(?:ST|ND|RD|TH)<[^>]*>\\s*(JANUARY|FEBRUARY|MARCH|APRIL|MAY|JUNE|JULY|AUGUST|SEPTEMBER|OCTOBER|NOVEMBER|DECEMBER),?\\s*(\\d{4})"),
       Compile("<u[^>]*>(\\d{1,2}(?:ST|ND|RD|TH)?\\s+(?:JANUARY|FEBRUARY|MARCH|APRIL|MAY|JUNE|JULY|AUGUST|SEPTEMBER|OCTOBER|NOVEMBER|DECEMBER),?\\s+\\d{4})") >>

\* the date with a superscript suffix: day, month name and year are groups 1, 2, 3
SuperscriptDate(html_clean, match, pads_year) ==
    Formatted(datetime(int(Group(html_clean, match, 3)), MonthNumber(Group(html_clean, match, 2)),
                       int(Group(html_clean, match, 1))),
              pads_year)

\* what a strategy does with a match: "super" builds the date from three groups,
\* "skip" is the continue of Pattern 3 and of Pattern 4, "parse" hands group 1 to
\* parse_date_from_text
DateOfMatch(how, text, match, pads_year) ==
    IF ~match.ok \/ how = "skip" THEN None
    ELSE IF how = "super" THEN SuperscriptDate(text, match, pads_year)
    ELSE GroupOneDate(text, match, pads_year)

\* one round of  for pattern in html_date_patterns
HtmlDateAttempt(html_clean, re) ==
    [how |-> IF re.ng = 3 THEN "super" ELSE "parse", text |-> html_clean,
     match |-> ReSearch(re, html_clean, IgnoreCase)]

HtmlDateAttempts(html_clean, patterns) ==
    [k \in 1..Len(patterns) |-> HtmlDateAttempt(html_clean, patterns[k])]

HtmlDateStrategy(html_content) ==
    HtmlDateAttempts(RemoveScriptStyle(html_content), html_date_patterns)

bracket_patterns ==
    << Compile("\\[(\\d{1,2}/\\d{1,2}/\\d{4})\\]"),
       Compile("\\[(\\d{1,2}(?:st|nd|rd|th)?\\s+(?:January|February|March|April|May|June|July|August|September|October|November|December),?\\s+\\d{4})\\]") >>

written_date_patterns ==
    << Compile("(?:H\\d+/\\d+/\\d+|NO\\.?\\s*[A-Z]?\\.?\\d+/\\d+|J\\.\\d+/\\d+)[^.]*?(\\d{1,2}(?:st|nd|rd|th)?\\s+(?:January|February|March|April|May|June|July|August|September|October|November|December),?\\s+\\d{4})"),
       Compile("(?:Coram|CORAM)[^.]*?(\\d{1,2}(?:st|nd|rd|th)?\\s+(?:January|February|March|April|May|June|July|August|September|October|November|December),?\\s+\\d{4})"),
       Compile("(?:JUDGMENT|Judgment)[^.]*?(\\d{1,2}(?:st|nd|rd|th)?\\s+(?:January|February|March|April|May|June|July|August|September|October|November|December),?\\s+\\d{4})"),
       Compile("(\\d{1,2}(?:ST|ND|RD|TH)?\\s+(?:JANUARY|FEBRUARY|MARCH|APRIL|MAY|JUNE|JULY|AUGUST|SEPTEMBER|OCTOBER|NOVEMBER|DECEMBER),?\\s+\\d{4})") >>

\* Pattern 1 and Pattern 2: for pattern in patterns: search header_text
HeaderStrategy(patterns, header_text) ==
    [k \in 1..Len(patterns) |->
        [how |-> "parse", text |-> header_text,
         match |-> ReSearch(patterns[k], header_text, IgnoreCase)]]

standalone_patterns ==
    << Compile("^(\\d{1,2}(?:ST|ND|RD|TH)?\\s+(?:JANUARY|FEBRUARY|MARCH|APRIL|MAY|JUNE|JULY|AUGUST|SEPTEMBER|OCTOBER|NOVEMBER|DECEMBER),?\\s+\\d{4})"),
       Compile("^(\\d{1,2}(?:st|nd|rd|th)?\\s+(?:January|February|March|April|May|June|July|August|September|October|November|December),?\\s+\\d{4})"),
       Compile("<u>(\\d{1,2}(?:ST|ND|RD|TH)?\\s+(?:JANUARY|FEBRUARY|MARCH|APRIL|MAY|JUNE|JULY|AUGUST|SEPTEMBER|OCTOBER|NOVEMBER|DECEMBER),?\\s+\\d{4})") >>

ConnectorWords == {"FROM", "TO", "ON", "AT", "BEFORE", "AFTER", "DURING"}

StandaloneAttempt(line, pattern) ==
    [how |-> IF \E word \in ConnectorWords : Contains(Upper(line), word) THEN "skip"
             ELSE "parse",
     text |-> line, match |-> ReMatch(pattern, line, IgnoreCase)]

StandaloneAttempts(pairs) ==
    [idx \in 1..Len(pairs) |-> StandaloneAttempt(pairs[idx].line, pairs[idx].pattern)]

\* Pattern 3: for line in lines[:30]: for pattern in standalone_patterns
StandaloneStrategy(lines) ==
    StandaloneAttempts(LinePatternPairs(Take(lines, 30), standalone_patterns))

early_date_pattern == Compile("(\\d{1,2}/\\d{1,2}/\\d{4})")
CaseContextWords == {"V.", "VRS", "VERSUS", "H1/", "NO.", "CASE"}

\* ' '.join(lines[max(0, i-2):i+3]), i counted from 1 here
Context(lines, i) == Join(SubSeq(lines, IF i - 2 < 1 THEN 1 ELSE i - 2, Min2(i + 2, Len(lines))), " ")

EarlySlashAttempt(lines, i) ==
    [how |-> IF \E word \in CaseContextWords : Contains(Upper(Context(lines, i)), word)
             THEN "parse" ELSE "skip",
     text |-> lines[i], match |-> ReSearch(early_date_pattern, lines[i], NoFlags)]

\* Pattern 4: for i, line in enumerate(lines[:20])
EarlySlashStrategy(lines) ==
    [i \in 1..Min2(20, Len(lines)) |-> EarlySlashAttempt(lines, i)]

\* the attempts on the rendered text, in the order the function makes them;
\* none when there are no lines (if not lines: return None)
TextAttempts(lines) ==
    IF Len(lines) = 0 THEN <<>>
    ELSE HeaderStrategy(bracket_patterns \o written_date_patterns, Join(Take(lines, 50), " "))
         \o StandaloneStrategy(lines) \o EarlySlashStrategy(lines)

\* every attempt of the function in order: each is a search and, on a match, a
\* return of the date it gives unless that is rejected and the loop goes on
DateAttempts(html_content) ==
    HtmlDateStrategy(html_content) \o TextAttempts(extract_text_first_150_lines(html_content))

\* the first attempt that returns
FirstDate(attempts, pads_year) ==
    FirstSome([k \in 1..Len(attempts) |->
                  DateOfMatch(attempts[k].how, attempts[k].text, attempts[k].match, pads_year)])

find_judgment_date_in_html(html_content, pads_year) ==
    FirstDate(DateAttempts(html_content), pads_year)

(***************************************************************************)
(* The files the scripts read and write.                                   *)
(*                                                                         *)
(* A LAW FINDER document is [kind, content]: kind "missing" (os.path.exists*)
(* is false), "unreadable" (it exists and open() or read() raises) or      *)
(* "html".  A record is a JSON file of law-finder-json:                    *)
(*   json_path   its path                                                  *)
(*   valid_json  json.load succeeds                                        *)
(*   caseTitle, trialDate   Optional[str]; None is "key absent"            *)
(*   metadata    "absent", "null" (not a dict) or "dict"                   *)
(*   sourcePath  metadata.sourcePath, "" when absent                       *)
(*   disk        what open(json_path, 'w') and json.dump meet: "ok",       *)
(*               "readonly" (open raises, the file is untouched) or "full" *)
(*               (the file is truncated, then the dump raises)             *)
(***************************************************************************)
MissingFile == [kind |-> "missing", content |-> ""]
UnreadableFile == [kind |-> "unreadable", content |-> ""]
HtmlFile(content) == [kind |-> "html", content |-> content]

SENTINEL == "pages.gif"

\* if title and title != 'pages.gif': return title; None is "go on"
ReturnedTitle(title) == IF Truthy(title) /\ title.v # SENTINEL THEN title ELSE None

\* if plain_text: title = find_case_title_in_text(plain_text)
TextTitle(plain_text) == IF plain_text # "" THEN find_case_title_in_text(plain_text) ELSE None

\* the try block with Strategy 2 (HTML parsing) ahead of Strategy 1
ContentTitle_HtmlFirst(html_content) ==
    Either(ReturnedTitle(extract_title_from_html(html_content)),
           ReturnedTitle(TextTitle(extract_plain_text_first_50_lines(html_content))))

\* the try block: Strategy 1 and Strategy 2 on the content that was read
ContentTitle(html_content) ==
    Either(ReturnedTitle(TextTitle(extract_plain_text_first_50_lines(html_content))),
           ReturnedTitle(extract_title_from_html(html_content)))

\* extract_case_title with Strategy 3 inside "if os.path.exists(html_path)"
extract_case_title_NoFallback(html_file, json_filename) ==
    IF html_file.kind = "missing" THEN None
    ELSE Either(IF html_file.kind = "html" THEN ContentTitle(html_file.content) ELSE None,
                ReturnedTitle(extract_title_from_filename(json_filename)))

extract_case_title(html_file, json_filename) ==
    Either(IF html_file.kind = "html" THEN ContentTitle(html_file.content) ELSE None,
           ReturnedTitle(extract_title_from_filename(json_filename)))

extract_trial_date(html_file, pads_year) ==
    IF html_file.kind = "missing" THEN None
    ELSE IF html_file.kind = "unreadable" THEN None
    ELSE find_judgment_date_in_html(html_file.content, pads_year)

\* LAW FINDER, by sourcePath
Corpus ==
    [p \in {"a.html", "b.html", "c.html", "gone.html", "locked.html"} |->
        CASE p = "a.html" ->
               HtmlFile("<html><body><p>JOHN DOE v. JANE ROE [26/03/2004]</p></body></html>")
          [] p = "b.html" ->
               HtmlFile("<html><body><p>nothing to see</p></body></html>")
          [] p = "c.html" ->
               HtmlFile("<html><body><p>KOFI MENSAH v. AMA [31/02/2004]</p></body></html>")
          [] p = "gone.html" -> MissingFile
          [] p = "locked.html" -> UnreadableFile]

FieldStates ==
    { <<None, None>>, <<Some(""), Some("")>>, <<Some(SENTINEL), Some(SENTINEL)>>,
      <<Some("OLD TITLE v. OLD PARTY"), Some("1999-12-31")>>,
      <<None, Some("1999-12-31")>> }

Sources ==
    { <<"", "REPUBLIC v. HIGH COURT.json">>, <<"", " pages.gif .json">>,
      <<"gone.html", "REPUBLIC v. HIGH COURT.json">>, <<"gone.html", "short.json">>,
      <<"locked.html", "AKUFO v. MENSAH 2001.json">>,
      <<"a.html", "short.json">>, <<"b.html", "AKUFO v. MENSAH 2001.json">>,
      <<"c.html", "short.json">> }

Documents == { Corpus[p] : p \in DOMAIN Corpus }
JsonPaths == { src[2] : src \in Sources }

\* the results of the extraction calls on the corpus, computed once
Lookup(table, args) == (CHOOSE e \in table : e.args = args).result
FilenameTitles == { [args |-> <<n>>, result |-> extract_title_from_filename(n)] : n \in JsonPaths }
CaseTitles ==
    { [args |-> <<d, n>>, result |-> extract_case_title(d, n)] : d \in Documents, n \in JsonPaths }
TrialDates ==
    { [args |-> <<d, y>>, result |-> extract_trial_date(d, y)] : d \in Documents, y \in BOOLEAN }

\* with open(json_path, 'w') as f: json.dump(data, f): [raised, rec]
WriteRecord(rec, data) ==
    CASE rec.disk = "ok" -> [raised |-> FALSE, rec |-> data]
      [] rec.disk = "readonly" -> [raised |-> TRUE, rec |-> rec]
      [] rec.disk = "full" ->
           [raised |-> TRUE,
            rec |-> [rec EXCEPT !.valid_json = FALSE, !.caseTitle = None, !.trialDate = None]]

\* what a call returns: the value returned, whether an exception left the call,
\* and the record file afterwards
Returned(value, rec) == [ret |-> value, raised |-> FALSE, rec |-> rec]
Raised(rec) == [ret |-> FALSE, raised |-> TRUE, rec |-> rec]

\* the outcome of the with block that writes the record back
Written(w) == IF w.raised THEN Raised(w.rec) ELSE Returned(TRUE, w.rec)

\* data[field] = value, written back; True when the write went through
SetAndWrite(rec, field, value) == Written(WriteRecord(rec, [rec EXCEPT ![field] = Some(value)]))

\* if value: data[field] = value; write; return True -- else return False
WriteIfFound(rec, field, value) ==
    IF Truthy(value) THEN SetAndWrite(rec, field, value.v) ELSE Returned(FALSE, rec)

\* the title the call extracts: from the file name alone when the record names no
\* source, by extract_case_title otherwise
TitleFor(rec, files) ==
    IF rec.sourcePath = "" THEN Lookup(FilenameTitles, <<rec.json_path>>)
    ELSE Lookup(CaseTitles, <<files[rec.sourcePath], rec.json_path>>)

\* the title update without the check "if data.get('caseTitle') and ...: return False"
TitleUpdateBody_NoGuard(rec, files) ==
    IF ~rec.valid_json THEN Raised(rec)
    ELSE IF rec.metadata = "null" THEN Raised(rec)
    ELSE WriteIfFound(rec, "caseTitle", TitleFor(rec, files))

\* the body of the try block of extract_case_titles.update_json_file
TitleUpdateBody(rec, files) ==
    IF ~rec.valid_json THEN Raised(rec)
    ELSE IF Truthy(rec.caseTitle) /\ rec.caseTitle.v # SENTINEL THEN Returned(FALSE, rec)
    ELSE IF rec.metadata = "null" THEN Raised(rec)
    ELSE WriteIfFound(rec, "caseTitle", TitleFor(rec, files))

\* except Exception: print(...); return False
CatchAll(r) == IF r.raised THEN Returned(FALSE, r.rec) ELSE r

titles_update_json_file(rec, files) == CatchAll(TitleUpdateBody(rec, files))

\* the body of the try block of extract_trial_dates.update_json_file
DateUpdateBody(rec, files, pads_year) ==
    IF ~rec.valid_json THEN Raised(rec)
    ELSE IF rec.trialDate.some /\ rec.trialDate.v # "" THEN Returned(FALSE, rec)
    ELSE IF rec.metadata = "null" THEN Raised(rec)
    ELSE IF rec.sourcePath = "" THEN Returned(FALSE, rec)
    ELSE WriteIfFound(rec, "trialDate", Lookup(TrialDates, <<files[rec.sourcePath], pads_year>>))

dates_update_json_file(rec, files, pads_year) == CatchAll(DateUpdateBody(rec, files, pads_year))

\* update_json_file without its "except Exception"
update_json_file_Uncaught(which, rec, files, pads_year) ==
    IF which = "titles" THEN TitleUpdateBody(rec, files)
    ELSE DateUpdateBody(rec, files, pads_year)

update_json_file(which, rec, files, pads_year) ==
    IF which = "titles" THEN titles_update_json_file(rec, files)
    ELSE dates_update_json_file(rec, files, pads_year)

(***************************************************************************)
(* State.                                                                  *)
(***************************************************************************)
VARIABLES
    records,     \* law-finder-json: record number -> record file
    law_finder,       \* LAW FINDER: sourcePath -> document (never written)
    strftime_pads,   \* whether this platform's strftime('%Y') pads to four digits
    script,      \* which script's main() runs: "titles" or "dates"
    pc,          \* main(): "idle", "loop", "done" or "crashed"
    loop_i,           \* main(): 1-based position of the loop in json_files
    total,       \* main(): len(json_files)
    updated,     \* main(): counter
    failed,      \* main(): counter
    runs,        \* how many runs of main() were started
    calls,       \* history: per record, update_json_file calls in this run
    last_call,        \* history: the latest update_json_file call
    writes,      \* history: per script and record, the values written
    title_in,    \* title extraction: the input under test
    title_out,   \* title extraction: the result
    date_in,     \* date extraction: the input under test
    date_out,    \* date extraction: the result
    parser,      \* renderer: the TextExtractor / DateExtractor instance
    pending,     \* renderer: parser events not yet dispatched
    regions      \* history: for each rendered line, where its text came from

batchVars == <<records, law_finder, script, pc, loop_i, total, updated, failed, runs, calls, last_call, writes>>
titleVars == <<title_in, title_out>>
dateVars == <<date_in, date_out>>
renderVars == <<parser, pending, regions>>
vars == <<batchVars, strftime_pads, titleVars, dateVars, renderVars>>

\* the values of the variables a specification does not use
NoCall == [script |-> "", rid |-> 0, before |-> <<>>, after |-> <<>>, ret |-> FALSE]
BatchIdle ==
    /\ records = <<>> /\ law_finder = <<>> /\ script = "" /\ pc = "idle" /\ loop_i = 0
    /\ total = 0 /\ updated = 0 /\ failed = 0 /\ runs = 0 /\ calls = <<>>
    /\ last_call = NoCall /\ writes = <<>>
TitleIdle == title_in = <<>> /\ title_out = <<>>
DateIdle == date_in = <<>> /\ date_out = <<>>
RenderIdle == parser = <<>> /\ pending = <<>> /\ regions = <<>>

(***************************************************************************)
(* The batch drivers: main() of both scripts over a small corpus.          *)
(***************************************************************************)
NumRecords == 2
MaxRuns == 2

Scripts == {"titles", "dates"}

Record(f, src, valid, md, disk) ==
    [json_path |-> src[2], valid_json |-> valid, caseTitle |-> f[1], trialDate |-> f[2],
     metadata |-> md, sourcePath |-> src[1], disk |-> disk]

HealthyRecords == { Record(f, src, TRUE, IF src[1] = "" THEN "absent" ELSE "dict", "ok") :
                        f \in FieldStates, src \in Sources }

FailingRecords ==
    { Record(<<None, None>>, <<"a.html", "short.json">>, FALSE, "dict", "ok"),
      Record(<<None, None>>, <<"", "REPUBLIC v. HIGH COURT.json">>, TRUE, "null", "ok"),
      Record(<<None, None>>, <<"a.html", "short.json">>, TRUE, "dict", "readonly"),
      Record(<<Some(SENTINEL), None>>, <<"a.html", "short.json">>, TRUE, "dict", "full") }

RecordTemplates == HealthyRecords \cup FailingRecords

RecordIds == 1 .. NumRecords

NoWrites == [s \in Scripts |-> [r \in RecordIds |-> <<>>]]

BatchInit ==
    /\ records \in [RecordIds -> RecordTemplates]
    /\ law_finder = Corpus
    /\ strftime_pads \in BOOLEAN
    /\ script = "" /\ pc = "idle" /\ loop_i = 0 /\ total = 0 /\ updated = 0 /\ failed = 0
    /\ runs = 0
    /\ calls = [r \in RecordIds |-> 0]
    /\ last_call = NoCall
    /\ writes = NoWrites
    /\ TitleIdle /\ DateIdle /\ RenderIdle

\* main(): json_files = list(json_dir.glob('*.json')); total, updated, failed set up
MainStart(which) ==
    /\ pc \in {"idle", "done"}
    /\ runs < MaxRuns
    /\ script' = which
    /\ pc' = "loop"
    /\ loop_i' = 1
    /\ total' = NumRecords
    /\ updated' = 0
    /\ failed' = 0
    /\ runs' = runs + 1
    /\ calls' = [r \in RecordIds |-> 0]
    /\ UNCHANGED <<records, law_finder, last_call, writes, strftime_pads, titleVars, dateVars, renderVars>>

\* the value a call that returned True wrote into its field
WrittenValue(which, rec) == IF which = "titles" THEN rec.caseTitle.v ELSE rec.trialDate.v

\* the call of the iteration has ended as r: the record file, the histories, and
\* "if update_json_file(...): updated += 1 else: failed += 1"; an exception that
\* leaves the call leaves main()
Counted(r) ==
    /\ records' = [records EXCEPT ![loop_i] = r.rec]
    /\ calls' = [calls EXCEPT ![loop_i] = @ + 1]
    /\ last_call' = [script |-> script, rid |-> loop_i, before |-> records[loop_i],
                     after |-> r.rec, ret |-> r.ret]
    /\ writes' = IF r.ret
                 THEN [writes EXCEPT ![script][loop_i] = Append(@, WrittenValue(script, r.rec))]
                 ELSE writes
    /\ pc' = IF r.raised THEN "crashed" ELSE pc
    /\ loop_i' = IF r.raised THEN loop_i ELSE loop_i + 1
    /\ updated' = IF r.ret THEN updated + 1 ELSE updated
    /\ failed' = IF r.ret \/ r.raised THEN failed ELSE failed + 1

\* one iteration of "for i, json_file in enumerate(json_files, 1)"
MainStep ==
    /\ pc = "loop"
    /\ loop_i <= total
    /\ Counted(update_json_file(script, records[loop_i], law_finder, strftime_pads))
    /\ UNCHANGED <<law_finder, script, total, runs, strftime_pads, titleVars, dateVars, renderVars>>

\* the loop is exhausted: the summary is printed
MainSummary ==
    /\ pc = "loop"
    /\ loop_i > total
    /\ pc' = "done"
    /\ UNCHANGED <<records, law_finder, script, loop_i, total, updated, failed, runs, calls, last_call,
                   writes, strftime_pads, titleVars, dateVars, renderVars>>

Next ==
    \/ \E which \in Scripts : MainStart(which)
    \/ MainStep
    \/ MainSummary

Init == BatchInit

Spec == Init /\ [][Next]_vars

\* main() is a sequential loop: an iteration that can run does run
FairSpec == Spec /\ WF_vars(MainStep) /\ WF_vars(MainSummary)

(***************************************************************************)
(* Properties of the batch drivers.                                        *)
(***************************************************************************)
\* a field that holds a value: a non-empty string other than the sentinel
Present(field) == field.some /\ field.v # "" /\ field.v # SENTINEL

\* a record that can be read, carries a metadata object or none, and can be written
Healthy(rec) == rec.valid_json /\ rec.metadata # "null" /\ rec.disk = "ok"

\* the document a record names
DocumentOf(rec) == law_finder[rec.sourcePath]

\* C1: a call on a record whose field already holds a value (caseTitle for the
\* title update, trialDate for the date update) leaves the record as it is and
\* returns False, whatever the document holds
C1_NoOverwrite ==
    /\ (last_call.script = "titles" /\ Present(last_call.before.caseTitle))
           => (last_call.after = last_call.before /\ ~last_call.ret)
    /\ (last_call.script = "dates" /\ Present(last_call.before.trialDate))
           => (last_call.after = last_call.before /\ ~last_call.ret)

\* a title update met a record that holds a title while its document gives another one
C1_Witness ==
    /\ last_call.script = "titles"
    /\ Present(last_call.before.caseTitle)
    /\ last_call.before.sourcePath = "a.html"
    /\ Truthy(Lookup(CaseTitles, <<DocumentOf(last_call.before), last_call.before.json_path>>))
    /\ Lookup(CaseTitles, <<DocumentOf(last_call.before), last_call.before.json_path>>)
          # last_call.before.caseTitle

\* C2: a call on a healthy record whose field equals "pages.gif", for which the
\* extractor finds a value, writes that value into the field and returns True
C2_SentinelIsAbsent ==
    /\ (/\ last_call.script = "titles" /\ Healthy(last_call.before)
        /\ last_call.before.caseTitle = Some(SENTINEL)
        /\ Truthy(TitleFor(last_call.before, law_finder)))
           => (last_call.ret /\ last_call.after.caseTitle = TitleFor(last_call.before, law_finder))
    /\ (/\ last_call.script = "dates" /\ Healthy(last_call.before)
        /\ last_call.before.trialDate = Some(SENTINEL)
        /\ last_call.before.sourcePath # ""
        /\ Truthy(Lookup(TrialDates, <<DocumentOf(last_call.before), strftime_pads>>)))
           => (/\ last_call.ret
               /\ last_call.after.trialDate
                     = Lookup(TrialDates, <<DocumentOf(last_call.before), strftime_pads>>))

\* the title the file name of a record gives, when extract_case_title accepts it
FilenameFallback(rec) == ReturnedTitle(Lookup(FilenameTitles, <<rec.json_path>>))

\* C6: when the document a healthy record names does not exist, the date update
\* changes nothing and returns False, and the title update (on a record without a
\* title) sets caseTitle to the title of the file name if that is accepted and
\* changes nothing otherwise
C6_MissingDocument ==
    (/\ last_call.rid # 0 /\ Healthy(last_call.before)
     /\ last_call.before.sourcePath # ""
     /\ DocumentOf(last_call.before).kind = "missing")
    => /\ last_call.script = "dates" => (last_call.after = last_call.before /\ ~last_call.ret)
       /\ (last_call.script = "titles" /\ ~Present(last_call.before.caseTitle))
             => IF FilenameFallback(last_call.before).some
                THEN /\ last_call.ret
                     /\ last_call.after = [last_call.before EXCEPT
                                              !.caseTitle = FilenameFallback(last_call.before)]
                ELSE last_call.after = last_call.before /\ ~last_call.ret

\* a title update took the title of a record from its file name, the document missing
C6_Witness ==
    /\ last_call.script = "titles" /\ last_call.ret
    /\ last_call.before.sourcePath = "gone.html"
    /\ last_call.before.caseTitle = None
    /\ last_call.after.caseTitle = Some("REPUBLIC v. HIGH COURT")

\* C9: no exception leaves main(); when the summary is printed every record has
\* been handed to update_json_file exactly once and updated + failed = total;
\* and a run that has begun reaches its summary
C9_EveryRecordOnceThenSummary ==
    /\ [](pc # "crashed")
    /\ [](pc = "done" => /\ \A rid \in RecordIds : calls[rid] = 1
                         /\ updated + failed = total)
    /\ ((pc = "loop") ~> (pc = "done"))

\* a run ended in which one call met a record that cannot be read and another one wrote
C9_Witness ==
    /\ pc = "done" /\ updated >= 1 /\ failed >= 1
    /\ \E rid \in RecordIds : ~records[rid].valid_json

\* C10: over all the runs each field of each record is written at most once, and
\* every value written is a non-empty string other than the sentinel
C10_WrittenOnceAndValid ==
    \A which \in Scripts, rid \in RecordIds :
        /\ Len(writes[which][rid]) <= 1
        /\ \A j \in 1..Len(writes[which][rid]) : writes[which][rid][j] \notin {"", SENTINEL}

(***************************************************************************)
(* The renderer, event by event: HTMLParser calls handle_starttag,         *)
(* handle_endtag and handle_data in the order of the events.  regions      *)
(* keeps, beside the parser, where the events have led: whether a body     *)
(* element is open, which script or style element is open, and for each    *)
(* rendered line the region its text chunk came in.                        *)
(***************************************************************************)
MaxEvents == 4

Tags == {"body", "script", "style", "p"}
Chunks == {"alpha", " beta \n\n gamma "}
Events ==
    [k : {"start", "end"}, v : Tags] \cup [k : {"data"}, v : Chunks]

RECURSIVE EventSeqs(_)
EventSeqs(n) ==
    IF n = 0 THEN {<<>>}
    ELSE EventSeqs(n - 1) \cup { Append(evs, ev) : evs \in EventSeqs(n - 1), ev \in Events }

NoRegions == [body |-> FALSE, cdata |-> "", lines |-> <<>>]

RenderInit ==
    /\ parser \in {NewParser(TextExtractor_max_lines), NewParser(DateExtractor_max_lines)}
    /\ pending \in EventSeqs(MaxEvents)
    /\ regions = NoRegions
    /\ BatchIdle /\ strftime_pads = FALSE /\ TitleIdle /\ DateIdle

\* the region after a start tag or an end tag
Opened(reg, tag) ==
    [reg EXCEPT !.body = @ \/ tag = "body",
                !.cdata = IF tag \in CDATA_CONTENT_ELEMENTS /\ @ = "" THEN tag ELSE @]
Closed(reg, tag) ==
    [reg EXCEPT !.body = @ /\ tag # "body", !.cdata = IF tag = @ THEN "" ELSE @]

\* the lines a text chunk added are marked with the region the chunk came in
Marked(reg, added) ==
    [reg EXCEPT !.lines = @ \o [j \in 1..added |-> [body |-> reg.body, cdata |-> reg.cdata]]]

HandleStartTag ==
    /\ pending # <<>> /\ Head(pending).k = "start"
    /\ parser' = handle_starttag(parser, Head(pending).v)
    /\ regions' = Opened(regions, Head(pending).v)
    /\ pending' = Tail(pending)
    /\ UNCHANGED <<batchVars, strftime_pads, titleVars, dateVars>>

HandleEndTag ==
    /\ pending # <<>> /\ Head(pending).k = "end"
    /\ parser' = handle_endtag(parser, Head(pending).v)
    /\ regions' = Closed(regions, Head(pending).v)
    /\ pending' = Tail(pending)
    /\ UNCHANGED <<batchVars, strftime_pads, titleVars, dateVars>>

HandleData ==
    /\ pending # <<>> /\ Head(pending).k = "data"
    /\ parser' = handle_data(parser, Head(pending).v)
    /\ regions' = Marked(regions, Len(parser'.text) - Len(parser.text))
    /\ pending' = Tail(pending)
    /\ UNCHANGED <<batchVars, strftime_pads, titleVars, dateVars>>

RenderNext == HandleStartTag \/ HandleEndTag \/ HandleData

RenderSpec == RenderInit /\ [][RenderNext]_vars

\* C8: every line the renderer holds came from a text chunk inside the body
\* region and outside every script and style region
C8_LinesOnlyFromBody ==
    /\ Len(regions.lines) = Len(parser.text)
    /\ \A j \in 1..Len(regions.lines) : regions.lines[j].body /\ regions.lines[j].cdata = ""

(***************************************************************************)
(* Title extraction, one call per behaviour: extract_case_title on a       *)
(* document and a record file name, or extract_title_from_filename on a    *)
(* file name (the call update_json_file makes for a record without         *)
(* sourcePath).  title_out keeps the result and, for extract_case_title,   *)
(* what each strategy of the cascade gives on the same input.              *)
(***************************************************************************)
TitleDocuments ==
    { MissingFile, UnreadableFile,
      HtmlFile("<html><body></body></html>"),
      HtmlFile("<html><body><p>nothing to see</p></body></html>"),
      HtmlFile("<html><body><p>JOHN DOE v. JANE ROE [26/03/2004]</p></body></html>"),
      HtmlFile("<html><body><p>KOFI MENSAH</p><p>VRS</p><p>AMA SERWAA</p></body></html>"),
      HtmlFile("<html><body><p>IN THE MATTER OF THE ESTATE OF KOJO</p></body></html>"),
      HtmlFile("<html><title>ADJEI v. BOATENG LTD</title><body><p>ruling</p></body></html>"),
      HtmlFile("<html><title>ADJEI v. BOATENG LTD</title><body><p>KOFI MENSAH</p><p>VRS</p><p>AMA SERWAA</p></body></html>"),
      HtmlFile("<html><body><p>IN THE MATTER OF LAND AT OSU</p><p>ADDO v. BONSU AND OTHERS</p></body></html>"),
      HtmlFile("<html><body><script>var t = 1;</script><p>OSEI v. THE REPUBLIC</p></body></html>"),
      HtmlFile("<html><body><p>see pages.gif</p></body></html>") }

RecordNames ==
    { "REPUBLIC v. HIGH COURT.json", "short.json", " pages.gif .json", "DOE v. ROE .json" }

FilePrefixes == { "", "SUPREME COURT__", "COURT OF APPEAL__", "WACA__", "law-finder-json/" }
FileFolders == { "", "2006A__", "TEMP__", "supreme court rep cases (1)__" }
FileStems ==
    { "ADDO v. BONSU AND OTHERS", "DOE v. ROE ", " pages.gif ", "pages.gif", "short",
      "AKUFO   v.   MENSAH__2001" }
FileNames ==
    { prefix \o folder \o stem \o ".json" :
          prefix \in FilePrefixes, folder \in FileFolders, stem \in FileStems }

\* what each strategy gives on the rendered text of a document that was read
TextTrace(text) ==
    [single |-> SingleLineStrategy(TextLines(text)),
     split |-> SplitLineStrategy(TextLines(text)),
     matter |-> MatterStrategy(TextLines(text))]

NoTextTrace == [single |-> None, split |-> None, matter |-> None]

TitleInit ==
    /\ title_in = <<>> /\ title_out = <<>>
    /\ BatchIdle /\ strftime_pads = FALSE /\ DateIdle /\ RenderIdle

CallExtractCaseTitle(html_file, json_filename) ==
    /\ title_in = <<>>
    /\ title_in' = [call |-> "extract_case_title", html_file |-> html_file,
                    json_filename |-> json_filename]
    /\ title_out' =
           [result |-> extract_case_title(html_file, json_filename),
            text |-> IF html_file.kind = "html"
                     THEN TextTrace(extract_plain_text_first_50_lines(html_file.content))
                     ELSE NoTextTrace,
            html |-> IF html_file.kind = "html"
                     THEN extract_title_from_html(html_file.content) ELSE None,
            filename |-> extract_title_from_filename(json_filename)]
    /\ UNCHANGED <<batchVars, strftime_pads, dateVars, renderVars>>

CallExtractTitleFromFilename(filename) ==
    /\ title_in = <<>>
    /\ title_in' = [call |-> "extract_title_from_filename", filename |-> filename]
    /\ title_out' = [result |-> extract_title_from_filename(filename)]
    /\ UNCHANGED <<batchVars, strftime_pads, dateVars, renderVars>>

\* file names of an institutional prefix and one or two "__"-separated segments
InstitutionalPrefixes == { prefixes[k] : k \in DOMAIN prefixes }
SegmentPool ==
    { "ADDO v. BONSU AND OTHERS", "20TH CENTURY v. SMITH", "supreme court rep cases (1)",
      "2006A", "2006", "TEMP", "" }
SegmentLists == { <<only>> : only \in SegmentPool }
                  \cup { <<first, last>> : first \in SegmentPool, last \in SegmentPool }
SegmentedName(prefix, segs) == prefix \o Join(segs, "__") \o ".json"
SegmentedNames ==
    { SegmentedName(prefix, segs) : prefix \in InstitutionalPrefixes, segs \in SegmentLists }

\* three consecutive rendered lines (stripped, non-empty) for Strategy 2
PlaintiffLines ==
    { "JOHN DOE", "KOFI MENSAH", "THE DEFENDANT KOFI", "CORAM ADADE JSC", "AMA RESPONDENT",
      "John Doe" }
SeparatorLines == { "v.", "v", "V.", "VRS", "vrs", "versus", "VERSUS", "and" }
DefendantLines ==
    { "JANE ROE", "AMA SERWAA", "CORAM ADADE JSC", "JUDGMENT OF THE COURT", "THE PLAINTIFF AMA",
      "AMA APPELLANT", "THE DEFENDANT" }

\* Strategy 2 of find_case_title_in_text on the lines line1, line2, line3
CallSplitLineStrategy(line1, line2, line3) ==
    /\ title_in = <<>>
    /\ title_in' = [call |-> "split_line", line1 |-> line1, line2 |-> line2, line3 |-> line3]
    /\ title_out' = [result |-> SplitLineStrategy(<<line1, line2, line3>>)]
    /\ UNCHANGED <<batchVars, strftime_pads, dateVars, renderVars>>

TitleNext ==
    \/ \E html_file \in TitleDocuments, json_filename \in RecordNames :
           CallExtractCaseTitle(html_file, json_filename)
    \/ \E filename \in FileNames \cup SegmentedNames : CallExtractTitleFromFilename(filename)
    \/ \E line1 \in PlaintiffLines, line2 \in SeparatorLines, line3 \in DefendantLines :
           CallSplitLineStrategy(line1, line2, line3)

TitleSpec == TitleInit /\ [][TitleNext]_vars

\* C3: the title a call of extract_case_title or of extract_title_from_filename
\* returns is longer than 10 characters and is not the sentinel
C3_TitleLongAndNotSentinel ==
    (title_in # <<>> /\ title_out.result.some)
        => (Len(title_out.result.v) > 10 /\ title_out.result.v # SENTINEL)

\* the structural words of a title block
MetadataWords == {"PLAINTIFF", "DEFENDANT", "RESPONDENT", "APPELLANT", "CORAM", "JUDGMENT"}

\* C11: a title the split-line strategy returns holds none of the words PLAINTIFF,
\* DEFENDANT, RESPONDENT, APPELLANT, CORAM, JUDGMENT in either of its parties
C11_NoMetadataWordInParties ==
    (title_in # <<>> /\ title_in.call = "split_line" /\ title_out.result.some)
        => \A word \in MetadataWords : ~Contains(Upper(title_out.result.v), word)

\* a line that is a party as it stands: capital letters and single spaces
PlainParty(line) ==
    /\ \A i \in 1..Len(line) : Ch(line, i) \in UpperSet \cup {" "}
    /\ ~Contains(line, "  ")

\* the separator the title is to carry for a middle line
SeparatorFor(line2) ==
    CASE Upper(line2) \in {"V.", "V"} -> "v."
      [] Upper(line2) = "VRS" -> "VRS"
      [] Upper(line2) = "VERSUS" -> "VERSUS"

\* C12: a title the split-line strategy returns for two plain parties around a
\* middle line v., v, vrs or versus (any case) is "<plaintiff> <separator>
\* <defendant>" with the separator v. for v. and v, VRS for vrs, VERSUS for versus
C12_SeparatorAsMatched ==
    (/\ title_in # <<>> /\ title_in.call = "split_line" /\ title_out.result.some
     /\ Upper(title_in.line2) \in {"V.", "V", "VRS", "VERSUS"}
     /\ PlainParty(title_in.line1) /\ PlainParty(title_in.line3))
        => title_out.result.v
             = title_in.line1 \o " " \o SeparatorFor(title_in.line2) \o " " \o title_in.line3

\* C14: for a file name of an institutional prefix and segments whose last
\* segment is non-empty and not all digits, extract_title_from_filename selects
\* that last segment: it returns it when it is longer than 10 characters and
\* nothing otherwise
C14_LastNonNumericSegment ==
    \A prefix \in InstitutionalPrefixes, segs \in SegmentLists :
        (/\ title_in # <<>> /\ title_in.call = "extract_title_from_filename"
         /\ title_in.filename = SegmentedName(prefix, segs)
         /\ segs[Len(segs)] # "" /\ ~IsDigitStr(segs[Len(segs)]))
            => title_out.result = IF Len(segs[Len(segs)]) > 10
                                  THEN Some(segs[Len(segs)]) ELSE None

\* a candidate extract_case_title accepts: a non-empty string other than the sentinel
Accepted(candidate) == Truthy(candidate) /\ candidate.v # SENTINEL

\* the candidates of the cascade in the order of the strategies
Cascade == <<title_out.text.single, title_out.text.split, title_out.text.matter,
             title_out.html, title_out.filename>>

\* C7: extract_case_title returns the candidate of the earliest strategy, in the
\* order single-line, split-line, "in the matter of", raw HTML, file name, whose
\* candidate is accepted, and nothing when no strategy has an accepted candidate
C7_EarliestAcceptedWins ==
    (title_in # <<>> /\ title_in.call = "extract_case_title")
        => IF \E k \in 1..5 : Accepted(Cascade[k])
           THEN \E k \in 1..5 : /\ Accepted(Cascade[k])
                                /\ \A j \in 1..(k - 1) : ~Accepted(Cascade[j])
                                /\ title_out.result = Cascade[k]
           ELSE title_out.result = None

\* the split-line candidate was returned although the raw HTML and the file name
\* have accepted candidates of their own
C7_Witness ==
    /\ title_in # <<>> /\ title_in.call = "extract_case_title"
    /\ ~Accepted(title_out.text.single)
    /\ Accepted(title_out.text.split) /\ title_out.result = title_out.text.split
    /\ Accepted(title_out.html) /\ title_out.html # title_out.result
    /\ Accepted(title_out.filename) /\ title_out.filename # title_out.result

(***************************************************************************)
(* Date extraction, one call per behaviour: find_judgment_date_in_html on  *)
(* a document, or parse_date_from_text on a slash-numeric date.  The       *)
(* platform's strftime is fixed from the start.                            *)
(***************************************************************************)
DateDocuments ==
    { "<html><body></body></html>",
      "<html><body><p>nothing to see</p></body></html>",
      "<html><body><p>JOHN DOE v. JANE ROE [26/03/2004]</p></body></html>",
      "<html><body><p>KOFI MENSAH v. AMA [31/02/2004]</p></body></html>",
      "<html><body><p>ADDO v. BONSU [03/04/0999]</p></body></html>",
      "<html><body><u>15<sup>TH</sup> NOVEMBER, 2006</u></body></html>",
      "<html><body><u>31<sup>ST</sup> JUNE, 2006</u></body></html>",
      "<html><body><p>Coram: ATUGUBA JSC</p><p>26th March, 2004</p></body></html>",
      "<html><body><p>JUDGMENT</p><p>31 June 2004</p></body></html>",
      "<html><body><p>15TH NOVEMBER, 2006</p></body></html>",
      "<html><body><p>ADDO v. BONSU</p><p>Suit 26/03/2004</p></body></html>",
      "<html><body><p>filed 26/03/2004</p></body></html>" }

\* documents of one rendered line: a lead, then a written date
DateLeads ==
    { "", "Coram: ATUGUBA JSC ", "SUIT NO. 12/2004 ", "heard ON ", "adjourned TO ",
      "Coram: ATUGUBA JSC. Delivered " }
WrittenDates == { "15TH NOVEMBER, 2006", "26th March, 2004" }
LeadDocument(lead, written) == "<html><body><p>" \o lead \o written \o "</p></body></html>"
LeadDocuments == { LeadDocument(lead, written) : lead \in DateLeads, written \in WrittenDates }

MaxDay == 31
SlashYears == { "2004", "2023", "0999" }

\* the text "A/B/YYYY", A and B written with two digits
SlashText(a, b, year) == ZeroPad(IntToStr(a), 2) \o "/" \o ZeroPad(IntToStr(b), 2) \o "/" \o year

DateInit ==
    /\ date_in = <<>> /\ date_out = <<>>
    /\ strftime_pads \in BOOLEAN
    /\ BatchIdle /\ TitleIdle /\ RenderIdle

CallFindJudgmentDate(html_content) ==
    /\ date_in = <<>>
    /\ date_in' = [call |-> "find_judgment_date_in_html", html_content |-> html_content]
    /\ date_out' = [result |-> find_judgment_date_in_html(html_content, strftime_pads)]
    /\ UNCHANGED <<batchVars, strftime_pads, titleVars, renderVars>>

CallParseDate(a, b, year) ==
    /\ date_in = <<>>
    /\ date_in' = [call |-> "parse_date_from_text", date_str |-> SlashText(a, b, year),
                   a |-> a, b |-> b, year |-> int(year)]
    /\ date_out' = [result |-> Some(parse_date_from_text(SlashText(a, b, year), strftime_pads))]
    /\ UNCHANGED <<batchVars, strftime_pads, titleVars, renderVars>>

DateNext ==
    \/ \E html_content \in DateDocuments \cup LeadDocuments : CallFindJudgmentDate(html_content)
    \/ \E a \in 1..MaxDay, b \in 1..MaxDay, year \in SlashYears : CallParseDate(a, b, year)

DateSpec == DateInit /\ [][DateNext]_vars

\* the text YYYY-MM-DD of a date
Canonical(y, m, d) ==
    ZeroPad(IntToStr(y), 4) \o "-" \o ZeroPad(IntToStr(m), 2) \o "-" \o ZeroPad(IntToStr(d), 2)

\* a string YYYY-MM-DD that names a day of the calendar
IsCanonicalDate(str) ==
    /\ Len(str) = 10
    /\ \A i \in 1..10 : IF i \in {5, 8} THEN Ch(str, i) = "-" ELSE Ch(str, i) \in DigitSet
    /\ ValidDate(int(SubSeq(str, 1, 4)), int(SubSeq(str, 6, 7)), int(SubSeq(str, 9, 10)))

\* C4: find_judgment_date_in_html returns nothing or a string YYYY-MM-DD that
\* names a day of the calendar
C4_NothingOrCanonicalDate ==
    (date_in # <<>> /\ date_in.call = "find_judgment_date_in_html" /\ date_out.result.some)
        => IsCanonicalDate(date_out.result.v)

\* a lead that ends inside the sentence span of an anchor: a case number, Coram or
\* Judgment, with no period after it
AnchorSpanRe ==
    Compile("(?:H\\d+/\\d+/\\d+|NO\\.?\\s*[A-Z]?\\.?\\d+/\\d+|J\\.\\d+/\\d+|Coram|Judgment)[^.]*$")
Anchored(lead) == ReSearch(AnchorSpanRe, lead, IgnoreCase).ok

\* C13: for a document of one line, a lead then a written date, without an anchor
\* before the date, a date is returned only by the standalone-line strategy: the
\* date starts the line and the line holds no connector word
C13_WrittenDateNeedsAnchor ==
    \A lead \in DateLeads, written \in WrittenDates :
        (/\ date_in # <<>> /\ date_in.call = "find_judgment_date_in_html"
         /\ date_in.html_content = LeadDocument(lead, written)
         /\ date_out.result.some
         /\ ~Anchored(lead))
            => /\ lead = ""
               /\ \A word \in ConnectorWords : ~Contains(Upper(lead \o written), word)

\* C5: parse_date_from_text on A/B/YYYY gives YYYY-BB-AA when day A of month B
\* is a date, and otherwise YYYY-AA-BB when day B of month A is one
C5_SlashDayMonthFirst ==
    (date_in # <<>> /\ date_in.call = "parse_date_from_text")
        => IF ValidDate(date_in.year, date_in.b, date_in.a)
           THEN date_out.result = Some(Canonical(date_in.year, date_in.b, date_in.a))
           ELSE ValidDate(date_in.year, date_in.a, date_in.b)
                  => date_out.result = Some(Canonical(date_in.year, date_in.a, date_in.b))

=============================================================================
